---- MODULE Spec2Model ----
(***************************************************************************)
(* The reconciliation engine of the orchestrator                           *)
(* (orchestrator/consensus/handler.go): the two event handlers             *)
(* processPandoraHeader and processVanguardShardInfo, insertIntoChain, and *)
(* the collaborators they drive (verified shard info db, the two pending   *)
(* caches, the reorg helpers, the confirmation feed).                      *)
(*                                                                         *)
(* The handlers are written as step operators over a state record, one     *)
(* step per access to shared state (a db call, a cache call, a read or     *)
(* write of curReorgStatus, a feed send).  Spec runs a handler call to     *)
(* completion in one action (calls dispatched one at a time); SpecConc     *)
(* lets the two producer tasks interleave step by step.  SpecSub is the    *)
(* pending-header subscription of the pandora chain with its dispatcher    *)
(* goroutine (SubscribePendingHeaders), which feeds processPandoraHeader.  *)
(***************************************************************************)
EXTENDS Integers, Sequences, FiniteSets, TLC

VARIABLES
    db,                   \* verified shard info db: records, latestStepId, slotIndex, finalized slot/epoch
    panHeaderCache,       \* slot -> [header, inProgress]
    vanShardCache,        \* slot -> [shard, disableDelete, inProgress]
    curReorgStatus,       \* <<>> (nil) or <<ReorgStatus>>
    verifiedSlotInfoFeed, \* every confirmation sent so far, with its count
    task,                 \* task -> the frame of the producer task's current call
    appendLog,            \* history: <<slot, hash, root>> -> number of successful SaveVerifiedShardInfo
    lastCall,             \* history (Spec, SpecOnce): the frame the last call returned with
    delivered,            \* history (SpecOnce): the events delivered so far
    calls,                \* task -> number of calls made so far
    ctx,                  \* the context given to SubscribePendingHeaders: "live" or "cancelled"
    sub,                  \* the rpc.ClientSubscription: "none", "open", "failed" (error on Err()), "closed"
    ch,                   \* the channel of pending headers the subscription feeds
    conInfoSubErrCh,      \* s.conInfoSubErrCh: its capacity, its buffer, the errors taken from it
    dispatcher,           \* the dispatcher goroutine: its position, its header, its error
    received,             \* history: the headers the subscription has put into ch
    dispatched            \* history: the headers the dispatcher has handed to the handler

\* The state of the pending-header subscription and of its dispatcher.
subVars == <<ctx, sub, ch, conInfoSubErrCh, dispatcher, received, dispatched>>

vars == <<db, panHeaderCache, vanShardCache, curReorgStatus, verifiedSlotInfoFeed,
          task, appendLog, lastCall, delivered, calls,
          ctx, sub, ch, conInfoSubErrCh, dispatcher, received, dispatched>>

\* Number of events (headers and shards together) delivered in one behaviour of
\* Spec and SpecOnce.
MaxEvents == 5

\* Number of events delivered in one behaviour of SpecFault.
MaxFaultEvents == 3

\* Number of events each producer task delivers in one behaviour of SpecConc.
MaxConcCalls == 2

\* Number of headers the subscription delivers in one behaviour of SpecSub.
MaxSubHeaders == 2

\* common.Hash{}: the all-zero hash.
ZeroHash == 0

Tasks == {"pan", "van"}

\* Where a store call of a handler call may fail (the db returns an error): the
\* ancestor search of checkReorg, the two store calls of processReorg and the three
\* of writeShardInfoInDB.
Faults == {"none", "ancestor", "reorg", "reorgLatest", "record", "head", "index"}

(***************************************************************************)
(* Optional values: <<>> is nil, <<x>> is a non-nil pointer to x.          *)
(***************************************************************************)
None == <<>>

Some(x) == <<x>>

IsSome(o) == o /= <<>>

Val(o) == o[1]

(***************************************************************************)
(* Bags as functions with a growing domain.                                *)
(***************************************************************************)
EmptyBag == [x \in {} |-> 0]

BagAdd(b, x) == IF x \in DOMAIN b THEN [b EXCEPT ![x] = @ + 1] ELSE (x :> 1) @@ b

BagCount(b, x) == IF x \in DOMAIN b THEN b[x] ELSE 0

Drop(f, ks) == [k \in (DOMAIN f) \ ks |-> f[k]]

(***************************************************************************)
(* The data of the two streams.                                            *)
(***************************************************************************)
\* eth1 header: Hash(), ParentHash, Number, the slot in Extra, and gasUsed standing
\* for the execution shard metadata mirrored in the vanguard block.
Header(slot, number, hash, parentHash, gasUsed) ==
    [slot |-> slot, number |-> number, hash |-> hash, parentHash |-> parentHash,
     gasUsed |-> gasUsed]

\* types.VanguardShardInfo with its embedded ShardInfo.
VanShard(slot, blockRoot, parentRoot, finalizedSlot, finalizedEpoch, hash, number, gasUsed) ==
    [slot |-> slot, blockRoot |-> blockRoot, parentRoot |-> parentRoot,
     finalizedSlot |-> finalizedSlot, finalizedEpoch |-> finalizedEpoch,
     shardInfo |-> [hash |-> hash, blockNumber |-> number, gasUsed |-> gasUsed]]

\* The canonical chain: slots 1, 2, 3.
ChainHeaders ==
    << Header(1, 1, 11, ZeroHash, 0), Header(2, 2, 12, 11, 0), Header(3, 3, 13, 12, 0) >>

ChainShards ==
    << VanShard(1, 21, ZeroHash, 0, 0, 11, 1, 0), VanShard(2, 22, 21, 1, 0, 12, 2, 0),
       VanShard(3, 23, 22, 2, 1, 13, 3, 0) >>

ChainLen == Len(ChainShards)

\* Two forks of the chain at slot 1: a sibling of slot 2's block at slot 2
\* and one at slot 4.
SameSlotFork == [header |-> Header(2, 2, 14, 11, 0),
                 shard |-> VanShard(2, 24, 21, 0, 0, 14, 2, 0)]

LaterSlotFork == [header |-> Header(4, 2, 15, 11, 0),
                  shard |-> VanShard(4, 25, 21, 2, 0, 15, 2, 0)]

Forks == {SameSlotFork, LaterSlotFork}

\* Slot-3 blocks that name header 13 and disagree with it: in a mirrored field,
\* or in nothing but the parent root (the block is a child of slot 1's).
MismatchField == VanShard(3, 26, 22, 2, 1, 13, 3, 1)

MismatchParent == VanShard(3, 27, 21, 2, 1, 13, 3, 0)

Headers == {ChainHeaders[i] : i \in 1..ChainLen} \cup {f.header : f \in Forks}

Shards == {ChainShards[i] : i \in 1..ChainLen} \cup {f.shard : f \in Forks}
              \cup {MismatchField, MismatchParent}

Slots == {h.slot : h \in Headers} \cup {v.slot : v \in Shards}

(***************************************************************************)
(* utils.PrepareMultiShardData: the verified record of a pair.             *)
(***************************************************************************)
PrepareMultiShardData(v, h) ==
    [slot |-> v.slot, slotBlockRoot |-> v.blockRoot, parentRoot |-> v.parentRoot,
     hash |-> h.hash, parentHash |-> h.parentHash]

\* MultiShardInfo.GetPanShardRoot / GetVanSlotRoot
GetPanShardRoot(rec) == rec.hash

GetVanSlotRoot(rec) == rec.slotBlockRoot

(***************************************************************************)
(* The verified shard info db (s.db).                                      *)
(***************************************************************************)
EmptyDB ==
    [records |-> [i \in {} |-> 0], latestStepId |-> 0, slotIndex |-> [i \in {} |-> 0],
     finalizedSlot |-> 0, finalizedEpoch |-> 0]

LatestStepID(d) == d.latestStepId

VerifiedShardInfo(d, stepId) ==
    IF stepId \in DOMAIN d.records THEN Some(d.records[stepId]) ELSE None

GetStepIdBySlot(d, slot) ==
    IF slot \in DOMAIN d.slotIndex THEN Some(d.slotIndex[slot]) ELSE None

\* save_verified fails if stepId <= latest_step_id or the parent link would break.
ParentLinked(prev, rec) ==
    rec.parentRoot = prev.slotBlockRoot /\ rec.parentHash = prev.hash

CanSaveVerifiedShardInfo(d, stepId, rec) ==
    /\ stepId > d.latestStepId
    /\ \/ stepId = 1
       \/ /\ (stepId - 1) \in DOMAIN d.records
          /\ ParentLinked(d.records[stepId - 1], rec)

SaveVerifiedShardInfo(d, stepId, rec) ==
    [d EXCEPT !.records = (stepId :> rec) @@ d.records]

SaveLatestStepID(d, stepId) == [d EXCEPT !.latestStepId = stepId]

SaveSlotStepIndex(d, slot, stepId) ==
    [d EXCEPT !.slotIndex = (slot :> stepId) @@ d.slotIndex]

\* remove_range: the records from..to and the slot-index entries that name them.
RemoveRange(d, from, to) ==
    [d EXCEPT !.records = Drop(d.records, from..to),
              !.slotIndex = Drop(d.slotIndex,
                                 {sl \in DOMAIN d.slotIndex : d.slotIndex[sl] \in from..to})]

FinalizedSlot(d) == d.finalizedSlot

FinalizedEpoch(d) == d.finalizedEpoch

\* Mutant of SaveFinalizedSlot: a plain put.
SaveFinalizedSlot_Put(d, slot) == [d EXCEPT !.finalizedSlot = slot]

\* Monotone updates: a non-increasing input is ignored silently.
SaveFinalizedSlot(d, slot) ==
    IF slot > d.finalizedSlot THEN [d EXCEPT !.finalizedSlot = slot] ELSE d

SaveFinalizedEpoch(d, epoch) ==
    IF epoch > d.finalizedEpoch THEN [d EXCEPT !.finalizedEpoch = epoch] ELSE d

(***************************************************************************)
(* The pending caches (cache.PandoraCache, cache.VanguardCache).           *)
(***************************************************************************)
EmptyCache == [sl \in {} |-> 0]

\* Put fails with UnknownParent when no cached header is the parent, the last
\* verified shard info is non-nil with another hash, and the header is not the
\* first one after genesis.
PanPutUnknownParent(cache, h, lastVerified) ==
    /\ ~ \E sl \in DOMAIN cache : cache[sl].header.hash = h.parentHash
    /\ IsSome(lastVerified) /\ Val(lastVerified).hash /= h.parentHash
    /\ h.number /= 1

PanPut(cache, slot, h) == (slot :> [header |-> h, inProgress |-> FALSE]) @@ cache

\* Put fails with UnknownParent unless the parent root is the last verified slot
\* block root or the block root of another cached entry at an earlier slot.
VanPutUnknownParent(cache, v, lastVerified) ==
    /\ ~ \E sl \in DOMAIN cache : sl < v.slot /\ cache[sl].shard.blockRoot = v.parentRoot
    /\ IsSome(lastVerified) /\ Val(lastVerified).slotBlockRoot /= v.parentRoot

VanPut(cache, slot, v, disableDelete) ==
    (slot :> [shard |-> v, disableDelete |-> disableDelete, inProgress |-> FALSE]) @@ cache

CacheGet(cache, slot) == IF slot \in DOMAIN cache THEN Some(cache[slot]) ELSE None

\* MarkInProgress fails when the slot has no entry or is already in progress.
CanMarkInProgress(cache, slot) == slot \in DOMAIN cache /\ ~ cache[slot].inProgress

SetInProgress(cache, slot, flag) ==
    IF slot \in DOMAIN cache THEN [cache EXCEPT ![slot].inProgress = flag] ELSE cache

ForceDelSlot(cache, slot) == Drop(cache, {slot})

(***************************************************************************)
(* The reorg helpers (checkReorg, processReorg) and the two compares.      *)
(***************************************************************************)
\* The steps below the head whose record has the incoming block's parent root.
Ancestors(d, v, headStepId) ==
    {i \in DOMAIN d.records : i < headStepId /\ d.records[i].slotBlockRoot = v.parentRoot}

Max(S) == CHOOSE x \in S : \A y \in S : y <= x

\* The incoming block does not extend the head: the store is searched for an
\* ancestor.
SearchesAncestor(v, head, headStepId) ==
    headStepId > 0 /\ IsSome(head) /\ Val(head).slotBlockRoot /= v.parentRoot

\* checkReorg: a reorg is triggered when the incoming block does not extend the
\* head and a step below the head has its parent root; the result is then the
\* ancestor found walking down from the head. It is an error when the store fails
\* during the search. A block with no ancestor triggers nothing: it is the cache
\* put that discards it.
checkReorg(d, v, head, headStepId, fault) ==
    IF ~ SearchesAncestor(v, head, headStepId)
    THEN [err |-> FALSE, parentShardInfo |-> None, parentStepId |-> 0]
    ELSE IF fault = "ancestor"
         THEN [err |-> TRUE, parentShardInfo |-> None, parentStepId |-> 0]
         ELSE IF Ancestors(d, v, headStepId) = {}
              THEN [err |-> FALSE, parentShardInfo |-> None, parentStepId |-> 0]
              ELSE [err |-> FALSE,
                    parentShardInfo |-> Some(d.records[Max(Ancestors(d, v, headStepId))]),
                    parentStepId |-> Max(Ancestors(d, v, headStepId))]

\* Every mirrored field of the header agrees with the vanguard block's shard info.
compareShardingInfo(h, shardInfo) ==
    /\ h.hash = shardInfo.hash
    /\ h.number = shardInfo.blockNumber
    /\ h.gasUsed = shardInfo.gasUsed

\* The pair extends latest: genesis, or both parent links agree.
verifyShardInfo(latest, h, v, latestStepId) ==
    \/ latestStepId = 0
    \/ /\ IsSome(latest)
       /\ Val(latest).hash = h.parentHash
       /\ Val(latest).slotBlockRoot = v.parentRoot

(***************************************************************************)
(* The state record the step operators transform, and a call's frame.      *)
(***************************************************************************)
State ==
    [db |-> db, panHeaderCache |-> panHeaderCache, vanShardCache |-> vanShardCache,
     curReorgStatus |-> curReorgStatus, verifiedSlotInfoFeed |-> verifiedSlotInfoFeed,
     task |-> task, appendLog |-> appendLog]

TaskFrame(t, header, shard, fault, disableDelete) ==
    [task |-> t, pc |-> "shortCircuit",
     slot |-> IF t = "pan" THEN Val(header).slot ELSE Val(shard).slot,
     header |-> header, shard |-> shard,
     latestStepId |-> 0, latestShardInfo |-> None, disableDelete |-> disableDelete,
     fault |-> fault, parentStepId |-> 0, nextStepId |-> 0, status |-> "Invalid",
     ret |-> "nil"]

\* No call: the frame of a task between two calls.
IdleFrame ==
    [task |-> "", pc |-> "idle", slot |-> 0, header |-> None, shard |-> None,
     latestStepId |-> 0, latestShardInfo |-> None, disableDelete |-> FALSE,
     fault |-> "none", parentStepId |-> 0, nextStepId |-> 0, status |-> "Invalid",
     ret |-> "nil"]

Goto(s, t, pc) == [s EXCEPT !.task[t].pc = pc]

\* The call returns ret (nil or an error); its locals are what it leaves behind.
Return(s, t, ret) == [s EXCEPT !.task[t].pc = "idle", !.task[t].ret = ret]

\* Leave through the deferred MarkNotInProgress.
Leave(s, t, ret) == [s EXCEPT !.task[t].ret = ret, !.task[t].pc = "unmark"]

Confirmation(hash, root, status) == [hash |-> hash, root |-> root, status |-> status]

publishBlockConfirmation(s, blockHash, slotHash, status) ==
    [s EXCEPT !.verifiedSlotInfoFeed = BagAdd(@, Confirmation(blockHash, slotHash, status))]

getShardingInfo(d, slot) ==
    IF IsSome(GetStepIdBySlot(d, slot))
    THEN VerifiedShardInfo(d, Val(GetStepIdBySlot(d, slot)))
    ELSE None

(***************************************************************************)
(* processPandoraHeader, step by step.                                     *)
(***************************************************************************)
\* Mutant of PanShortCircuit: the header hash is compared with the slot block root.
PanShortCircuit_VanRoot(d, h) ==
    /\ IsSome(getShardingInfo(d, h.slot))
    /\ GetVanSlotRoot(Val(getShardingInfo(d, h.slot))) = h.hash

\* handler.go:27-28: the slot is verified and the verified record has this header.
PanShortCircuit(d, h) ==
    /\ IsSome(getShardingInfo(d, h.slot))
    /\ GetPanShardRoot(Val(getShardingInfo(d, h.slot))) = h.hash

\* handler.go:25-33
PanShortCircuitStep(s) ==
    LET h == Val(s.task["pan"].header)
        shardInfo == getShardingInfo(s.db, h.slot)
    IN IF PanShortCircuit(s.db, h)
       THEN Return(publishBlockConfirmation(s, GetPanShardRoot(Val(shardInfo)),
                                            GetVanSlotRoot(Val(shardInfo)), "Verified"),
                   "pan", "nil")
       ELSE Goto(s, "pan", "readLatestStepId")

\* handler.go:35 and 99
ReadLatestStepIdStep(s, t) ==
    [s EXCEPT !.task[t].latestStepId = LatestStepID(s.db),
              !.task[t].pc = "readLatestShardInfo"]

\* handler.go:36-43 and 100-107
ReadLatestShardInfoStep(s, t) ==
    LET info == VerifiedShardInfo(s.db, s.task[t].latestStepId)
    IN IF s.task[t].latestStepId > 0 /\ ~ IsSome(info)
       THEN Return(s, t, "nil latest shard info")
       ELSE [s EXCEPT !.task[t].latestShardInfo = info,
                      !.task[t].pc = IF t = "pan" THEN "checkReorgStatus" ELSE "checkReorg"]

\* handler.go:45-51
PanCheckReorgStatusStep(s) ==
    LET h == Val(s.task["pan"].header)
    IN IF IsSome(s.curReorgStatus) /\ Val(s.curReorgStatus).pandoraHash = h.hash
       THEN [s EXCEPT !.task["pan"].latestShardInfo = Val(s.curReorgStatus).parentShardInfo,
                      !.task["pan"].latestStepId = Val(s.curReorgStatus).parentStepId,
                      !.task["pan"].pc = "cachePut"]
       ELSE Goto(s, "pan", "cachePut")

\* Mutant of PanCachePutStep: the UnknownParent error is returned to the producer.
PanCachePutStep_ReturnsErr(s) ==
    LET f == s.task["pan"]
        h == Val(f.header)
    IN IF PanPutUnknownParent(s.panHeaderCache, h, f.latestShardInfo)
       THEN Return(s, "pan", "UnknownParent")
       ELSE [s EXCEPT !.panHeaderCache = PanPut(@, f.slot, h),
                      !.task["pan"].pc = "markInProgress"]

\* handler.go:53-66
PanCachePutStep(s) ==
    LET f == s.task["pan"]
        h == Val(f.header)
    IN IF PanPutUnknownParent(s.panHeaderCache, h, f.latestShardInfo)
       THEN Return(publishBlockConfirmation(s, h.hash, ZeroHash, "Invalid"), "pan", "nil")
       ELSE [s EXCEPT !.panHeaderCache = PanPut(@, f.slot, h),
                      !.task["pan"].pc = "markInProgress"]

\* handler.go:68-73 and 159-164
MarkInProgressStep(s, t) ==
    LET slot == s.task[t].slot
    IN IF t = "pan"
       THEN IF CanMarkInProgress(s.panHeaderCache, slot)
            THEN [s EXCEPT !.panHeaderCache = SetInProgress(@, slot, TRUE),
                           !.task[t].pc = "getOther"]
            ELSE Return(s, t, "mark in progress failed")
       ELSE IF CanMarkInProgress(s.vanShardCache, slot)
            THEN [s EXCEPT !.vanShardCache = SetInProgress(@, slot, TRUE),
                           !.task[t].pc = "getOther"]
            ELSE Return(s, t, "mark in progress failed")

\* Mutant of GetOtherStep: only the vanguard path looks for the other stream's entry.
GetOtherStep_VanOnly(s, t) ==
    LET slot == s.task[t].slot
    IN IF t = "van" /\ IsSome(CacheGet(s.panHeaderCache, slot))
       THEN [s EXCEPT !.task[t].header = Some(s.panHeaderCache[slot].header),
                      !.task[t].pc = "compare"]
       ELSE Leave(s, t, "nil")

\* handler.go:75-80 and 166-171: the other stream's entry of the slot, if cached.
GetOtherStep(s, t) ==
    LET slot == s.task[t].slot
    IN IF t = "pan"
       THEN IF IsSome(CacheGet(s.vanShardCache, slot))
            THEN [s EXCEPT !.task[t].shard = Some(s.vanShardCache[slot].shard),
                           !.task[t].pc = "compare"]
            ELSE Leave(s, t, "nil")
       ELSE IF IsSome(CacheGet(s.panHeaderCache, slot))
            THEN [s EXCEPT !.task[t].header = Some(s.panHeaderCache[slot].header),
                           !.task[t].pc = "compare"]
            ELSE Leave(s, t, "nil")

\* Mutant of UnmarkStep: MarkNotInProgress is called on the returns with nil only,
\* not deferred.
UnmarkStep_NilOnly(s, t) ==
    LET slot == s.task[t].slot
        u == IF s.task[t].ret /= "nil"
             THEN s
             ELSE IF t = "pan"
                  THEN [s EXCEPT !.panHeaderCache = SetInProgress(@, slot, FALSE)]
                  ELSE [s EXCEPT !.vanShardCache = SetInProgress(@, slot, FALSE)]
    IN Return(u, t, s.task[t].ret)

\* handler.go:73 and 164: the deferred MarkNotInProgress, then the return.
UnmarkStep(s, t) ==
    LET slot == s.task[t].slot
        u == IF t = "pan"
             THEN [s EXCEPT !.panHeaderCache = SetInProgress(@, slot, FALSE)]
             ELSE [s EXCEPT !.vanShardCache = SetInProgress(@, slot, FALSE)]
    IN Return(u, t, s.task[t].ret)

(***************************************************************************)
(* processVanguardShardInfo, step by step.                                 *)
(***************************************************************************)
\* handler.go:92-93: the slot is verified and the verified record's slot root is
\* NOT the incoming block root.
VanShortCircuit(d, v) ==
    /\ IsSome(getShardingInfo(d, v.slot))
    /\ GetVanSlotRoot(Val(getShardingInfo(d, v.slot))) /= v.blockRoot

\* handler.go:89-97: returns without a confirmation.
VanShortCircuitStep(s) ==
    IF VanShortCircuit(s.db, Val(s.task["van"].shard))
    THEN Return(s, "van", "nil")
    ELSE Goto(s, "van", "readLatestStepId")

\* handler.go:109-114
VanCheckReorgStep(s) ==
    LET f == s.task["van"]
        r == checkReorg(s.db, Val(f.shard), f.latestShardInfo, f.latestStepId, f.fault)
    IN IF r.err
       THEN Return(s, "van", "nil")
       ELSE IF IsSome(r.parentShardInfo)
            THEN [s EXCEPT !.task["van"].parentStepId = r.parentStepId,
                           !.task["van"].latestShardInfo = r.parentShardInfo,
                           !.task["van"].latestStepId = r.parentStepId,
                           !.task["van"].pc = "installReorg"]
            ELSE Goto(s, "van", "cachePut")

\* handler.go:118: the status is installed only when there is none or it is of
\* the same block root.
InstallsReorgStatus(status, v) ==
    ~ IsSome(status) \/ Val(status).blockRoot = v.blockRoot

\* handler.go:117-131
VanInstallReorgStep(s) ==
    LET f == s.task["van"]
        v == Val(f.shard)
    IN IF InstallsReorgStatus(s.curReorgStatus, v)
       THEN [s EXCEPT !.curReorgStatus =
                          Some([slot |-> f.slot, blockRoot |-> v.blockRoot,
                                parentStepId |-> f.parentStepId,
                                parentShardInfo |-> f.latestShardInfo,
                                pandoraHash |-> v.shardInfo.hash,
                                hasResolved |-> FALSE]),
                      !.task["van"].pc = "cachePut"]
       ELSE Goto(s, "van", "cachePut")

\* Mutant of VanCachePutStep: UnknownParent is answered as on the pandora path, with
\* an Invalid confirmation.
VanCachePutStep_PublishesInvalid(s) ==
    LET f == s.task["van"]
        v == Val(f.shard)
    IN IF VanPutUnknownParent(s.vanShardCache, v, f.latestShardInfo)
       THEN Return(publishBlockConfirmation(s, v.shardInfo.hash, ZeroHash, "Invalid"),
                   "van", "nil")
       ELSE [s EXCEPT !.vanShardCache = VanPut(@, f.slot, v, f.disableDelete),
                      !.task["van"].pc = "markInProgress"]

\* handler.go:133-157
VanCachePutStep(s) ==
    LET f == s.task["van"]
        v == Val(f.shard)
    IN IF VanPutUnknownParent(s.vanShardCache, v, f.latestShardInfo)
       THEN Return(s, "van", "nil")
       ELSE [s EXCEPT !.vanShardCache = VanPut(@, f.slot, v, f.disableDelete),
                      !.task["van"].pc = "markInProgress"]

(***************************************************************************)
(* insertIntoChain, step by step, in the frame of the calling task.        *)
(***************************************************************************)
\* Mutant of PairVerifies: the parent-link compare is left out.
PairVerifies_CompareOnly(h, v, latestShardInfo, latestStepId) ==
    compareShardingInfo(h, v.shardInfo)

\* handler.go:186: both compares pass.
PairVerifies(h, v, latestShardInfo, latestStepId) ==
    /\ compareShardingInfo(h, v.shardInfo)
    /\ verifyShardInfo(latestShardInfo, h, v, latestStepId)

\* handler.go:188-189: the pair is the unresolved reorg's block.
ReorgPending(status, v) ==
    /\ IsSome(status)
    /\ Val(status).slot = v.slot
    /\ Val(status).blockRoot = v.blockRoot
    /\ ~ Val(status).hasResolved

\* handler.go:185-192
CompareStep(s, t) ==
    LET f == s.task[t]
        h == Val(f.header)
        v == Val(f.shard)
    IN IF PairVerifies(h, v, f.latestShardInfo, f.latestStepId)
       THEN IF ReorgPending(s.curReorgStatus, v)
            THEN [s EXCEPT !.task[t].parentStepId = Val(s.curReorgStatus).parentStepId,
                           !.task[t].pc = "reorgRemove"]
            ELSE Goto(s, t, "writeReadLatest")
       ELSE [s EXCEPT !.task[t].status = "Invalid", !.task[t].pc = "publish"]

\* Mutant of ReorgRemoveStep: the failure of processReorg is logged and the call
\* goes on to mark the reorg resolved and to write the pair.
ReorgRemoveStep_GoesOn(s, t) ==
    IF s.task[t].fault = "reorg"
    THEN Goto(s, t, "markResolved")
    ELSE [s EXCEPT !.db = RemoveRange(@, s.task[t].parentStepId + 1, LatestStepID(s.db)),
                   !.task[t].pc = "reorgSaveLatest"]

\* processReorg, first store call: remove_range(parentStepId + 1, latest_step_id).
\* handler.go:192-195 on failure.
ReorgRemoveStep(s, t) ==
    IF s.task[t].fault = "reorg"
    THEN Leave(s, t, "nil")
    ELSE [s EXCEPT !.db = RemoveRange(@, s.task[t].parentStepId + 1, LatestStepID(s.db)),
                   !.task[t].pc = "reorgSaveLatest"]

\* processReorg, second store call: save_latest_step_id(parentStepId).
\* handler.go:192-195 on failure.
ReorgSaveLatestStep(s, t) ==
    IF s.task[t].fault = "reorgLatest"
    THEN Leave(s, t, "nil")
    ELSE [s EXCEPT !.db = SaveLatestStepID(@, s.task[t].parentStepId),
                   !.task[t].pc = "markResolved"]

\* handler.go:196
MarkResolvedStep(s, t) ==
    [s EXCEPT !.curReorgStatus =
                  IF IsSome(@) THEN Some([Val(@) EXCEPT !.hasResolved = TRUE]) ELSE @,
              !.task[t].pc = "writeReadLatest"]

\* handler.go:240-241
WriteReadLatestStep(s, t) ==
    [s EXCEPT !.task[t].nextStepId = LatestStepID(s.db) + 1,
              !.task[t].pc = "writeRecord"]

\* The key of a record in appendLog.
PairKey(rec) == <<rec.slot, rec.hash, rec.slotBlockRoot>>

\* handler.go:201-205 and 242-244
WriteRecordStep(s, t) ==
    LET f == s.task[t]
        newShardInfo == PrepareMultiShardData(Val(f.shard), Val(f.header))
    IN IF f.fault = "record" \/ ~ CanSaveVerifiedShardInfo(s.db, f.nextStepId, newShardInfo)
       THEN Leave(s, t, "failed to write shard info in db")
       ELSE [s EXCEPT !.db = SaveVerifiedShardInfo(@, f.nextStepId, newShardInfo),
                      !.appendLog = BagAdd(@, PairKey(newShardInfo)),
                      !.task[t].pc = "writeHead"]

\* Mutant of WriteHeadStep: the failure is not returned; the call goes on to the
\* confirmation, as insertIntoChain does for a failed processReorg.
WriteHeadStep_NotReturned(s, t) ==
    IF s.task[t].fault = "head"
    THEN Goto(s, t, "publish")
    ELSE [s EXCEPT !.db = SaveLatestStepID(@, s.task[t].nextStepId),
                   !.task[t].pc = "writeIndex"]

\* handler.go:246-248
WriteHeadStep(s, t) ==
    IF s.task[t].fault = "head"
    THEN Leave(s, t, "failed to write shard info in db")
    ELSE [s EXCEPT !.db = SaveLatestStepID(@, s.task[t].nextStepId),
                   !.task[t].pc = "writeIndex"]

\* handler.go:250-252
WriteIndexStep(s, t) ==
    IF s.task[t].fault = "index"
    THEN Leave(s, t, "failed to write shard info in db")
    ELSE [s EXCEPT !.db = SaveSlotStepIndex(@, Val(s.task[t].shard).slot, s.task[t].nextStepId),
                   !.task[t].pc = "finReadSlot"]

\* handler.go:262 and 269: the value is stored only when it is greater.
NeedsFinalizeUpdate(new, cur) == new > cur

\* handler.go:261-262
FinReadSlotStep(s, t) ==
    IF NeedsFinalizeUpdate(Val(s.task[t].shard).finalizedSlot, FinalizedSlot(s.db))
    THEN Goto(s, t, "finSaveSlot")
    ELSE Goto(s, t, "finReadEpoch")

\* handler.go:263-265
FinSaveSlotStep(s, t) ==
    [s EXCEPT !.db = SaveFinalizedSlot(@, Val(s.task[t].shard).finalizedSlot),
              !.task[t].pc = "finReadEpoch"]

\* handler.go:268-269
FinReadEpochStep(s, t) ==
    IF NeedsFinalizeUpdate(Val(s.task[t].shard).finalizedEpoch, FinalizedEpoch(s.db))
    THEN Goto(s, t, "finSaveEpoch")
    ELSE [s EXCEPT !.task[t].status = "Verified", !.task[t].pc = "evictPan"]

\* handler.go:270-272, then 208
FinSaveEpochStep(s, t) ==
    [s EXCEPT !.db = SaveFinalizedEpoch(@, Val(s.task[t].shard).finalizedEpoch),
              !.task[t].status = "Verified",
              !.task[t].pc = "evictPan"]

\* Mutant of EvictPanStep: the whole pandora cache is purged.
EvictPanStep_Purge(s, t) ==
    [s EXCEPT !.panHeaderCache = EmptyCache,
              !.task[t].pc = "evictVan"]

\* handler.go:211
EvictPanStep(s, t) ==
    [s EXCEPT !.panHeaderCache = ForceDelSlot(@, Val(s.task[t].shard).slot),
              !.task[t].pc = "evictVan"]

\* Mutant of EvictVanStep: an entry put with disable_delete is kept.
EvictVanStep_KeepsDisableDelete(s, t) ==
    LET slot == Val(s.task[t].shard).slot
    IN [s EXCEPT !.vanShardCache =
                     IF slot \in DOMAIN @ /\ @[slot].disableDelete THEN @ ELSE ForceDelSlot(@, slot),
                 !.task[t].pc = "publish"]

\* handler.go:212
EvictVanStep(s, t) ==
    [s EXCEPT !.vanShardCache = ForceDelSlot(@, Val(s.task[t].shard).slot),
              !.task[t].pc = "publish"]

\* Mutant of PublishStep: the status starts as Verified (handler.go:185).
PublishStep_StatusVerified(s, t) ==
    Leave(publishBlockConfirmation(s, Val(s.task[t].header).hash,
                                   Val(s.task[t].shard).blockRoot, "Verified"),
          t, "nil")

\* handler.go:216-218
PublishStep(s, t) ==
    Leave(publishBlockConfirmation(s, Val(s.task[t].header).hash,
                                   Val(s.task[t].shard).blockRoot, s.task[t].status),
          t, "nil")

\* The positions of a call inside insertIntoChain (handler.go:178-219).
InsertPcs ==
    {"compare", "reorgRemove", "reorgSaveLatest", "markResolved", "writeReadLatest",
     "writeRecord", "writeHead", "writeIndex", "finReadSlot", "finSaveSlot",
     "finReadEpoch", "finSaveEpoch", "evictPan", "evictVan", "publish"}

(***************************************************************************)
(* One step of task t's call, and a call run to its return.                *)
(***************************************************************************)
Step(s, t) ==
    CASE s.task[t].pc = "shortCircuit" ->
             IF t = "pan" THEN PanShortCircuitStep(s) ELSE VanShortCircuitStep(s)
      [] s.task[t].pc = "readLatestStepId" -> ReadLatestStepIdStep(s, t)
      [] s.task[t].pc = "readLatestShardInfo" -> ReadLatestShardInfoStep(s, t)
      [] s.task[t].pc = "checkReorgStatus" -> PanCheckReorgStatusStep(s)
      [] s.task[t].pc = "checkReorg" -> VanCheckReorgStep(s)
      [] s.task[t].pc = "installReorg" -> VanInstallReorgStep(s)
      [] s.task[t].pc = "cachePut" ->
             IF t = "pan" THEN PanCachePutStep(s) ELSE VanCachePutStep(s)
      [] s.task[t].pc = "markInProgress" -> MarkInProgressStep(s, t)
      [] s.task[t].pc = "getOther" -> GetOtherStep(s, t)
      [] s.task[t].pc = "compare" -> CompareStep(s, t)
      [] s.task[t].pc = "reorgRemove" -> ReorgRemoveStep(s, t)
      [] s.task[t].pc = "reorgSaveLatest" -> ReorgSaveLatestStep(s, t)
      [] s.task[t].pc = "markResolved" -> MarkResolvedStep(s, t)
      [] s.task[t].pc = "writeReadLatest" -> WriteReadLatestStep(s, t)
      [] s.task[t].pc = "writeRecord" -> WriteRecordStep(s, t)
      [] s.task[t].pc = "writeHead" -> WriteHeadStep(s, t)
      [] s.task[t].pc = "writeIndex" -> WriteIndexStep(s, t)
      [] s.task[t].pc = "finReadSlot" -> FinReadSlotStep(s, t)
      [] s.task[t].pc = "finSaveSlot" -> FinSaveSlotStep(s, t)
      [] s.task[t].pc = "finReadEpoch" -> FinReadEpochStep(s, t)
      [] s.task[t].pc = "finSaveEpoch" -> FinSaveEpochStep(s, t)
      [] s.task[t].pc = "evictPan" -> EvictPanStep(s, t)
      [] s.task[t].pc = "evictVan" -> EvictVanStep(s, t)
      [] s.task[t].pc = "publish" -> PublishStep(s, t)
      [] s.task[t].pc = "unmark" -> UnmarkStep(s, t)
      [] OTHER -> s

RECURSIVE RunToReturn(_, _)
RunToReturn(s, t) == IF s.task[t].pc = "idle" THEN s ELSE RunToReturn(Step(s, t), t)

\* processPandoraHeader(headerInfo) is entered (handler.go:20-25).
processPandoraHeader(s, h, fault) ==
    [s EXCEPT !.task["pan"] = TaskFrame("pan", Some(h), None, fault, FALSE)]

\* processVanguardShardInfo(vanShardInfo) is entered (handler.go:84-89);
\* disableDelete is vanShardInfo.Slot < currentSlot (handler.go:133-141).
processVanguardShardInfo(s, v, fault, disableDelete) ==
    [s EXCEPT !.task["van"] = TaskFrame("van", None, Some(v), fault, disableDelete)]

(***************************************************************************)
(* Initial states: the service is constructed over a db that holds a       *)
(* prefix of the canonical chain (as left by an earlier run), with empty   *)
(* caches and no reorg status.                                             *)
(***************************************************************************)
ChainRecord(i) == PrepareMultiShardData(ChainShards[i], ChainHeaders[i])

ChainDB(n) ==
    [records |-> [i \in 1..n |-> ChainRecord(i)],
     latestStepId |-> n,
     slotIndex |-> [sl \in {ChainShards[i].slot : i \in 1..n} |->
                       CHOOSE i \in 1..n : ChainShards[i].slot = sl],
     finalizedSlot |-> IF n = 0 THEN 0 ELSE ChainShards[n].finalizedSlot,
     finalizedEpoch |-> IF n = 0 THEN 0 ELSE ChainShards[n].finalizedEpoch]

ChainLog(n) == [k \in {PairKey(ChainRecord(i)) : i \in 1..n} |-> 1]

\* base: the length of the chain the db held at construction; inOrder: the
\* deliveries so far went slot by slot along the canonical chain.
NothingDelivered(n) == [base |-> n, headers |-> {}, shards |-> {}, inOrder |-> TRUE]

\* An event of the canonical chain's i-th slot is delivered in slot order: the slot
\* is not in the db at construction and both events of every earlier such slot have
\* been delivered.
InSlotOrder(d, i) ==
    /\ i > d.base
    /\ \A j \in (d.base + 1)..(i - 1) : ChainHeaders[j] \in d.headers /\ ChainShards[j] \in d.shards

Init ==
    \E n \in 0..ChainLen :
        /\ db = ChainDB(n)
        /\ panHeaderCache = EmptyCache
        /\ vanShardCache = EmptyCache
        /\ curReorgStatus = None
        /\ verifiedSlotInfoFeed = EmptyBag
        /\ task = [t \in Tasks |-> IdleFrame]
        /\ appendLog = ChainLog(n)
        /\ lastCall = IdleFrame
        /\ delivered = NothingDelivered(n)
        /\ calls = [t \in Tasks |-> 0]
        /\ ctx = "live"
        /\ sub = "none"
        /\ ch = <<>>
        /\ conInfoSubErrCh = [cap |-> 0, buf |-> <<>>, taken |-> 0]
        /\ dispatcher = [pc |-> "none", newPendingHeader |-> None, err |-> None]
        /\ received = <<>>
        /\ dispatched = <<>>

Install(n) ==
    /\ db' = n.db
    /\ panHeaderCache' = n.panHeaderCache
    /\ vanShardCache' = n.vanShardCache
    /\ curReorgStatus' = n.curReorgStatus
    /\ verifiedSlotInfoFeed' = n.verifiedSlotInfoFeed
    /\ task' = n.task
    /\ appendLog' = n.appendLog

\* The frame of a returned call is dropped.
Dropped(s, t) == IF s.task[t].pc = "idle" THEN [s EXCEPT !.task[t] = IdleFrame] ELSE s

AllIdle == \A t \in Tasks : task[t].pc = "idle"

(***************************************************************************)
(* Spec: the calls are dispatched one at a time; each action is a whole    *)
(* handler call.                                                           *)
(***************************************************************************)
\* The call entered with state s runs to its return.
Call(s, t) ==
    /\ AllIdle /\ calls["pan"] + calls["van"] < MaxEvents
    /\ calls' = [calls EXCEPT ![t] = @ + 1]
    /\ \E n \in {RunToReturn(s, t)} :
           /\ \E m \in {Dropped(n, t)} : Install(m)
           /\ lastCall' = n.task[t]

OnPandoraHeader(h, fault) ==
    /\ Call(processPandoraHeader(State, h, fault), "pan")
    /\ UNCHANGED delivered
    /\ UNCHANGED subVars

OnVanguardShard(v, fault, disableDelete) ==
    /\ Call(processVanguardShardInfo(State, v, fault, disableDelete), "van")
    /\ UNCHANGED delivered
    /\ UNCHANGED subVars

Next ==
    \/ \E h \in Headers : OnPandoraHeader(h, "none")
    \/ \E v \in Shards : \E disableDelete \in BOOLEAN : OnVanguardShard(v, "none", disableDelete)

Spec == Init /\ [][Next]_vars

(***************************************************************************)
(* SpecFault: as Spec, and a store call of the handler call may fail.      *)
(***************************************************************************)
FaultyPandoraHeader(h, fault) ==
    /\ calls["pan"] + calls["van"] < MaxFaultEvents
    /\ OnPandoraHeader(h, fault)

FaultyVanguardShard(v, fault, disableDelete) ==
    /\ calls["pan"] + calls["van"] < MaxFaultEvents
    /\ OnVanguardShard(v, fault, disableDelete)

NextFault ==
    \/ \E h \in Headers : \E fault \in Faults : FaultyPandoraHeader(h, fault)
    \/ \E v \in Shards : \E fault \in Faults : \E disableDelete \in BOOLEAN :
           FaultyVanguardShard(v, fault, disableDelete)

SpecFault == Init /\ [][NextFault]_vars

(***************************************************************************)
(* SpecOnce: as Spec, and every event is delivered at most once.           *)
(***************************************************************************)
DeliverHeader(h) ==
    /\ h \notin delivered.headers
    /\ Call(processPandoraHeader(State, h, "none"), "pan")
    /\ delivered' = [delivered EXCEPT
                         !.headers = @ \cup {h},
                         !.inOrder = @ /\ \E i \in 1..ChainLen :
                                              h = ChainHeaders[i] /\ InSlotOrder(delivered, i)]
    /\ UNCHANGED subVars

DeliverShard(v, disableDelete) ==
    /\ v \notin delivered.shards
    /\ Call(processVanguardShardInfo(State, v, "none", disableDelete), "van")
    /\ delivered' = [delivered EXCEPT
                         !.shards = @ \cup {v},
                         !.inOrder = @ /\ \E i \in 1..ChainLen :
                                              v = ChainShards[i] /\ InSlotOrder(delivered, i)]
    /\ UNCHANGED subVars

NextOnce ==
    \/ \E h \in Headers : DeliverHeader(h)
    \/ \E v \in Shards : \E disableDelete \in BOOLEAN : DeliverShard(v, disableDelete)

SpecOnce == Init /\ [][NextOnce]_vars

(***************************************************************************)
(* SpecConc: the two producer tasks run concurrently; a task's call        *)
(* advances one step at a time.                                            *)
(***************************************************************************)
PanStart(h, fault) ==
    /\ task["pan"].pc = "idle" /\ calls["pan"] < MaxConcCalls
    /\ calls' = [calls EXCEPT !["pan"] = @ + 1]
    /\ \E n \in {processPandoraHeader(State, h, fault)} : Install(n)
    /\ UNCHANGED <<lastCall, delivered>>
    /\ UNCHANGED subVars

VanStart(v, fault, disableDelete) ==
    /\ task["van"].pc = "idle" /\ calls["van"] < MaxConcCalls
    /\ calls' = [calls EXCEPT !["van"] = @ + 1]
    /\ \E n \in {processVanguardShardInfo(State, v, fault, disableDelete)} : Install(n)
    /\ UNCHANGED <<lastCall, delivered>>
    /\ UNCHANGED subVars

TaskStep(t) ==
    /\ task[t].pc /= "idle"
    /\ \E n \in {Dropped(Step(State, t), t)} : Install(n)
    /\ UNCHANGED <<lastCall, delivered, calls>>
    /\ UNCHANGED subVars

NextConc ==
    \/ \E h \in Headers : PanStart(h, "none")
    \/ \E v \in Shards : \E disableDelete \in BOOLEAN : VanStart(v, "none", disableDelete)
    \/ \E t \in Tasks : TaskStep(t)

SpecConc == Init /\ [][NextConc]_vars

(***************************************************************************)
(* SpecSub: the pending-header subscription of the pandora chain and its   *)
(* dispatcher goroutine (SubscribePendingHeaders).  The dispatcher's steps *)
(* are scheduled fairly; the subscription's deliveries and failure, an     *)
(* Unsubscribe by the caller and the cancellation of the context happen or *)
(* not.                                                                    *)
(***************************************************************************)
engineVars == <<db, panHeaderCache, vanShardCache, curReorgStatus, verifiedSlotInfoFeed,
                task, appendLog, lastCall, delivered, calls>>

DispatcherRunning == dispatcher.pc \in {"select", "dispatch", "handling", "forward"}

\* SubscribePendingHeaders, client.Subscribe succeeding: ch is made, the subscription
\* is open and the dispatcher goroutine is started.  (A failing Subscribe returns
\* on line 17 with nothing started and nothing changed.)  The capacity of
\* s.conInfoSubErrCh is fixed where the Service is constructed: the channel is
\* unbuffered or buffered.
SubscribePendingHeaders(cap) ==
    /\ sub = "none" /\ ctx = "live"
    /\ sub' = "open"
    /\ ch' = <<>>
    /\ conInfoSubErrCh' = [cap |-> cap, buf |-> <<>>, taken |-> 0]
    /\ dispatcher' = [pc |-> "select", newPendingHeader |-> None, err |-> None]
    /\ UNCHANGED <<ctx, received, dispatched>>
    /\ UNCHANGED engineVars

\* The open subscription puts a pending header into ch.
Receive(h) ==
    /\ sub = "open" /\ Len(received) < MaxSubHeaders
    /\ ch' = Append(ch, h)
    /\ received' = Append(received, h)
    /\ UNCHANGED <<ctx, sub, conInfoSubErrCh, dispatcher, dispatched>>
    /\ UNCHANGED engineVars

\* The subscription fails: sub.Err() delivers a non-nil error.
SubscriptionFails ==
    /\ sub = "open"
    /\ sub' = "failed"
    /\ UNCHANGED <<ctx, ch, conInfoSubErrCh, dispatcher, received, dispatched>>
    /\ UNCHANGED engineVars

\* The holder of the returned subscription calls Unsubscribe: sub.Err() is closed.
Unsubscribe ==
    /\ sub = "open"
    /\ sub' = "closed"
    /\ UNCHANGED <<ctx, ch, conInfoSubErrCh, dispatcher, received, dispatched>>
    /\ UNCHANGED engineVars

\* The engine shuts down: the context is cancelled.  The established subscription
\* is not bound to the context.
CtxCancel ==
    /\ ctx = "live"
    /\ ctx' = "cancelled"
    /\ UNCHANGED <<sub, ch, conInfoSubErrCh, dispatcher, received, dispatched>>
    /\ UNCHANGED engineVars

\* part_001:25: the select takes the oldest header of ch.
SelectHeader ==
    /\ dispatcher.pc = "select" /\ ch /= <<>>
    /\ dispatcher' = [dispatcher EXCEPT !.pc = "dispatch", !.newPendingHeader = Some(Head(ch))]
    /\ ch' = Tail(ch)
    /\ UNCHANGED <<ctx, sub, conInfoSubErrCh, received, dispatched>>
    /\ UNCHANGED engineVars

\* part_001:30: s.OnNewPendingHeader(ctx, newPendingHeader): the handler is entered
\* with the header.
Dispatch ==
    /\ dispatcher.pc = "dispatch" /\ task["pan"].pc = "idle"
    /\ \E n \in {processPandoraHeader(State, Val(dispatcher.newPendingHeader), "none")} :
           Install(n)
    /\ calls' = [calls EXCEPT !["pan"] = @ + 1]
    /\ dispatcher' = [dispatcher EXCEPT !.pc = "handling", !.newPendingHeader = None]
    /\ dispatched' = Append(dispatched, Val(dispatcher.newPendingHeader))
    /\ UNCHANGED <<ctx, sub, ch, conInfoSubErrCh, received, delivered, lastCall>>

\* The handler call of the dispatcher runs, one statement at a time.
HandlerStep ==
    /\ dispatcher.pc = "handling" /\ task["pan"].pc /= "idle"
    /\ \E n \in {Step(State, "pan")} :
           /\ \E m \in {Dropped(n, "pan")} : Install(m)
           /\ lastCall' = IF n.task["pan"].pc = "idle" THEN n.task["pan"] ELSE lastCall
    /\ UNCHANGED <<delivered, calls>>
    /\ UNCHANGED subVars

\* The handler call has returned: the loop goes back to the select (part_001:23-24).
HandlerReturns ==
    /\ dispatcher.pc = "handling" /\ task["pan"].pc = "idle"
    /\ dispatcher' = [dispatcher EXCEPT !.pc = "select"]
    /\ UNCHANGED <<ctx, sub, ch, conInfoSubErrCh, received, dispatched>>
    /\ UNCHANGED engineVars

\* part_001:31-33 and 36: the select takes from sub.Err(): the error of a failed
\* subscription, or nil from the closed channel, and then the loop returns.
SelectErr ==
    /\ dispatcher.pc = "select" /\ sub \in {"failed", "closed"}
    /\ dispatcher' = IF sub = "failed"
                     THEN [dispatcher EXCEPT !.pc = "forward", !.err = Some("subscription error")]
                     ELSE [dispatcher EXCEPT !.pc = "returned"]
    /\ sub' = "closed"
    /\ UNCHANGED <<ctx, ch, conInfoSubErrCh, received, dispatched>>
    /\ UNCHANGED engineVars

\* The error sink of the service (its run loop) receives from s.conInfoSubErrCh until
\* the context is cancelled.
SinkReceiving == ctx = "live"

\* part_001:34-36: s.conInfoSubErrCh <- err, a send with no alternative: it completes
\* when the buffer has room or the sink receives, and then the loop returns.
Forward ==
    /\ dispatcher.pc = "forward"
    /\ \/ /\ Len(conInfoSubErrCh.buf) < conInfoSubErrCh.cap
          /\ conInfoSubErrCh' = [conInfoSubErrCh EXCEPT !.buf = Append(@, Val(dispatcher.err))]
       \/ /\ Len(conInfoSubErrCh.buf) >= conInfoSubErrCh.cap /\ SinkReceiving
          /\ conInfoSubErrCh' = [conInfoSubErrCh EXCEPT !.taken = @ + 1]
    /\ dispatcher' = [dispatcher EXCEPT !.pc = "returned"]
    /\ UNCHANGED <<ctx, sub, ch, received, dispatched>>
    /\ UNCHANGED engineVars

\* The sink takes a buffered error.
SinkTakes ==
    /\ SinkReceiving /\ conInfoSubErrCh.buf /= <<>>
    /\ conInfoSubErrCh' = [conInfoSubErrCh EXCEPT !.buf = Tail(@), !.taken = @ + 1]
    /\ UNCHANGED <<ctx, sub, ch, dispatcher, received, dispatched>>
    /\ UNCHANGED engineVars

\* A step of the dispatcher goroutine (part_001:22-39).
DispatcherStep ==
    SelectHeader \/ Dispatch \/ HandlerStep \/ HandlerReturns \/ SelectErr \/ Forward

NextSub ==
    \/ \E cap \in 0..1 : SubscribePendingHeaders(cap)
    \/ \E h \in Headers : Receive(h)
    \/ SubscriptionFails
    \/ Unsubscribe
    \/ CtxCancel
    \/ SelectHeader
    \/ Dispatch
    \/ HandlerStep
    \/ HandlerReturns
    \/ SelectErr
    \/ Forward
    \/ SinkTakes

SpecSub == Init /\ [][NextSub]_vars /\ WF_vars(DispatcherStep) /\ WF_vars(SinkTakes)

(***************************************************************************)
(* The properties.                                                         *)
(***************************************************************************)
\* The step is a whole handler call (Spec, SpecOnce); lastCall' is its frame.
IsCall == calls' /= calls

\* The call reached insertIntoChain: it holds both the header and the shard.
InsertReached(c) == IsSome(c.header) /\ IsSome(c.shard)

\* The slot index names a stored record for the slot.
Indexed(d, slot) == slot \in DOMAIN d.slotIndex /\ d.slotIndex[slot] \in DOMAIN d.records

IndexedRecord(d, slot) == d.records[d.slotIndex[slot]]

\* C1: every Verified confirmation (hash E, root R) sent so far, by insertIntoChain
\* or by the short-circuit, was preceded by a successful append of a record with
\* execution hash E and slot block root R (appendLog only grows, so it is enough
\* that the pair is in appendLog in every state in which the confirmation is sent).
C1_VerifiedFollowsAppend ==
    \A c \in DOMAIN verifiedSlotInfoFeed :
        c.status = "Verified" =>
            \E k \in DOMAIN appendLog : k[2] = c.hash /\ k[3] = c.root

\* The later-slot fork's pair was verified by insertIntoChain and then once more by
\* the short-circuit.
C1_Witness ==
    /\ BagCount(verifiedSlotInfoFeed,
                Confirmation(LaterSlotFork.header.hash, LaterSlotFork.shard.blockRoot,
                             "Verified")) = 2
    /\ BagCount(appendLog, PairKey(PrepareMultiShardData(LaterSlotFork.shard,
                                                         LaterSlotFork.header))) = 1

\* C2: a call that reaches insertIntoChain with a pair that fails the structural
\* compare or the parent-link compare sends exactly (h.hash, v.blockRoot, Invalid),
\* appends nothing and leaves the db (records, latestStepId, slot index, finalized
\* slot and epoch) unchanged.
C2_MismatchInvalid ==
    [][ (/\ IsCall /\ InsertReached(lastCall')
         /\ ~ (/\ compareShardingInfo(Val(lastCall'.header), Val(lastCall'.shard).shardInfo)
               /\ verifyShardInfo(lastCall'.latestShardInfo, Val(lastCall'.header),
                                  Val(lastCall'.shard), lastCall'.latestStepId)))
        => /\ verifiedSlotInfoFeed' =
                  BagAdd(verifiedSlotInfoFeed,
                         Confirmation(Val(lastCall'.header).hash,
                                      Val(lastCall'.shard).blockRoot, "Invalid"))
           /\ db' = db
           /\ appendLog' = appendLog ]_vars

\* The last call reached insertIntoChain with header 13 and a mismatching block, and
\* both mismatches have been answered: the one in a mirrored field and the one in
\* the parent link.
C2_Witness ==
    /\ InsertReached(lastCall)
    /\ Val(lastCall.shard) \in {MismatchField, MismatchParent}
    /\ Confirmation(ChainHeaders[3].hash, MismatchField.blockRoot, "Invalid")
           \in DOMAIN verifiedSlotInfoFeed
    /\ Confirmation(ChainHeaders[3].hash, MismatchParent.blockRoot, "Invalid")
           \in DOMAIN verifiedSlotInfoFeed

\* C3 (Inv. 1): in every reachable state, for every two consecutive step ids in the
\* store, the later record's parent root is the earlier one's slot block root and
\* its shard's parent hash is the earlier one's shard hash.
C3_ChainConsecutive ==
    \A i \in DOMAIN db.records :
        (i > 1 /\ (i - 1) \in DOMAIN db.records) =>
            /\ db.records[i].parentRoot = db.records[i - 1].slotBlockRoot
            /\ db.records[i].parentHash = db.records[i - 1].hash

\* The events delivered are the header and the shard of every slot of the canonical
\* chain that the db did not hold at construction, and nothing else.
ChainDelivered ==
    /\ delivered.base < ChainLen
    /\ delivered.headers = {ChainHeaders[i] : i \in (delivered.base + 1)..ChainLen}
    /\ delivered.shards = {ChainShards[i] : i \in (delivered.base + 1)..ChainLen}

\* Every delivered slot has exactly one Verified confirmation and its record in the
\* store, and the store is a contiguous, linked range of step ids.
ChainVerified ==
    /\ \A i \in (delivered.base + 1)..ChainLen :
           /\ BagCount(verifiedSlotInfoFeed,
                       Confirmation(ChainHeaders[i].hash, ChainShards[i].blockRoot,
                                    "Verified")) = 1
           /\ Indexed(db, ChainShards[i].slot)
           /\ IndexedRecord(db, ChainShards[i].slot) = ChainRecord(i)
    /\ DOMAIN db.records = 1..db.latestStepId
    /\ \A i \in 2..db.latestStepId : ParentLinked(db.records[i - 1], db.records[i])

ReorgDelivered(F) ==
    /\ delivered.base = ChainLen
    /\ delivered.shards = {F.shard} /\ delivered.headers = {F.header}
    /\ lastCall.task = "pan"

\* The store is A -> V', with one Verified for V'.
ReorgedTo(F) ==
    /\ DOMAIN db.records = {1, 2}
    /\ db.records[1] = ChainRecord(1)
    /\ db.records[2] = PrepareMultiShardData(F.shard, F.header)
    /\ db.latestStepId = 2
    /\ DOMAIN db.slotIndex = {ChainShards[1].slot, F.shard.slot}
    /\ db.slotIndex[ChainShards[1].slot] = 1 /\ db.slotIndex[F.shard.slot] = 2
    /\ BagCount(verifiedSlotInfoFeed,
                Confirmation(F.header.hash, F.shard.blockRoot, "Verified")) = 1

\* C5 (P5): with A -> B -> C committed, after on_vanguard_shard(V') and
\* on_pandora_header(h') of a fork V' off A (V' at B's slot included), the store is
\* exactly A -> V', latest_step_id = step_id(A) + 1, the records and slot-index
\* entries of B and C are gone and one Verified for (h'.hash, V'.block_root) is out.
C5_ReorgReplacesBranch == \A F \in Forks : ReorgDelivered(F) => ReorgedTo(F)

\* C6 (Inv. 6): after any interleaving of events, a pair with the same slot,
\* execution hash and consensus root has been appended at most once.
C6_AppendedOnce == \A k \in DOMAIN appendLog : appendLog[k] <= 1

\* C7: a call of on_pandora_header(h) made when the slot index maps h.slot to a step
\* whose record has execution hash h.hash sends exactly one confirmation,
\* Verified(h.hash, stored slot block root), returns nil, and leaves the store, both
\* caches (in-progress flags included) and cur_reorg_status unchanged.
C7_PanShortCircuitFrame ==
    [][ \A h \in Headers :
          (/\ IsCall /\ lastCall'.task = "pan" /\ lastCall'.header = Some(h)
           /\ Indexed(db, h.slot) /\ IndexedRecord(db, h.slot).hash = h.hash)
          => /\ verifiedSlotInfoFeed' =
                    BagAdd(verifiedSlotInfoFeed,
                           Confirmation(h.hash, IndexedRecord(db, h.slot).slotBlockRoot,
                                        "Verified"))
             /\ UNCHANGED <<db, panHeaderCache, vanShardCache, curReorgStatus, appendLog>>
             /\ lastCall'.ret = "nil" ]_vars

\* The last call was on_pandora_header of a header whose slot is verified with its
\* hash; it returned before it read the latest step id, and the confirmation is out.
C7_Witness ==
    /\ lastCall.task = "pan" /\ db.latestStepId > 0 /\ lastCall.latestShardInfo = None
    /\ Indexed(db, lastCall.slot)
    /\ IndexedRecord(db, lastCall.slot).hash = Val(lastCall.header).hash
    /\ Confirmation(Val(lastCall.header).hash, IndexedRecord(db, lastCall.slot).slotBlockRoot,
                    "Verified") \in DOMAIN verifiedSlotInfoFeed

\* C8: a call of on_vanguard_shard(v) made when the slot index maps v.slot to a step
\* whose record has slot block root v.blockRoot sends Verified(stored execution
\* hash, v.blockRoot) and leaves the store, the caches and cur_reorg_status
\* unchanged.
C8_VanShortCircuitFrame ==
    [][ \A v \in Shards :
          (/\ IsCall /\ lastCall'.task = "van" /\ lastCall'.shard = Some(v)
           /\ Indexed(db, v.slot) /\ IndexedRecord(db, v.slot).slotBlockRoot = v.blockRoot)
          => /\ verifiedSlotInfoFeed' =
                    BagAdd(verifiedSlotInfoFeed,
                           Confirmation(IndexedRecord(db, v.slot).hash, v.blockRoot,
                                        "Verified"))
             /\ UNCHANGED <<db, panHeaderCache, vanShardCache, curReorgStatus, appendLog>> ]_vars

\* The call of on_pandora_header(h) is not short-circuited and its cache put fails
\* with UnknownParent (against the latest verified shard info the call put with).
OrphanCall(h) ==
    /\ IsCall /\ lastCall'.task = "pan" /\ lastCall'.header = Some(h)
    /\ ~ PanShortCircuit(db, h)
    /\ PanPutUnknownParent(panHeaderCache, h, lastCall'.latestShardInfo)

\* What an orphan call does besides its effect on the pandora cache: it sends exactly
\* (h.hash, zero root, Invalid), does not reach insertIntoChain, does not touch the
\* store, the vanguard cache or cur_reorg_status, and returns nil.
OrphanAnswered(h) ==
    /\ verifiedSlotInfoFeed' =
           BagAdd(verifiedSlotInfoFeed, Confirmation(h.hash, ZeroHash, "Invalid"))
    /\ ~ IsSome(lastCall'.shard)
    /\ UNCHANGED <<db, vanShardCache, curReorgStatus, appendLog>>
    /\ lastCall'.ret = "nil"

\* C9 (P4) as stated: an orphan call sends (h.hash, zero root, Invalid), leaves the
\* pandora cache without an entry for h at its slot, marks nothing in progress,
\* does not call insertIntoChain, does not touch the store, and returns nil.
C9_OrphanLeavesNoEntry ==
    [][ \A h \in Headers :
          OrphanCall(h)
          => /\ OrphanAnswered(h)
             /\ ~ (h.slot \in DOMAIN panHeaderCache' /\ panHeaderCache'[h.slot].header = h)
             /\ \A sl \in DOMAIN panHeaderCache' : ~ panHeaderCache'[sl].inProgress ]_vars

\* C9 (P4) amended: the same, but the pandora cache is left unchanged: h is not put,
\* and an entry that an earlier call cached for h at that slot stays.
C9_OrphanLeavesCacheUnchanged ==
    [][ \A h \in Headers :
          OrphanCall(h) => (OrphanAnswered(h) /\ panHeaderCache' = panHeaderCache) ]_vars

\* The last call was an orphan's: it got Invalid with the zero root although the
\* header is cached at its slot from an earlier call; it did not reach insertIntoChain.
C9_Witness ==
    /\ lastCall.task = "pan" /\ ~ IsSome(lastCall.shard) /\ lastCall.ret = "nil"
    /\ Confirmation(Val(lastCall.header).hash, ZeroHash, "Invalid")
           \in DOMAIN verifiedSlotInfoFeed
    /\ lastCall.slot \in DOMAIN panHeaderCache
    /\ panHeaderCache[lastCall.slot].header = Val(lastCall.header)
    /\ PanPutUnknownParent(panHeaderCache, Val(lastCall.header), lastCall.latestShardInfo)

C11_SlotMutualExclusion ==
    ~ (/\ task["pan"].pc \in InsertPcs /\ task["van"].pc \in InsertPcs
       /\ task["pan"].slot = task["van"].slot)

\* C12: under concurrent commits no record of the store is overwritten by a
\* different append: a step id that holds a record keeps that record for as long as
\* it holds one.
C12_NoRecordOverwritten ==
    [][ \A i \in DOMAIN db.records \cap DOMAIN db'.records :
            db'.records[i] = db.records[i] ]_vars

\* C13 (Inv. 3): in every state between two calls, also after a call in which a
\* store write of a commit failed, the step ids that hold a record are exactly
\* 1..latest_step_id (so latest_step_id is the greatest of them).
C13_HeadIsMaxStep == DOMAIN db.records = 1..db.latestStepId

\* The step ids that hold a committed record.
Committed(d) == {i \in DOMAIN d.records : i <= d.latestStepId}

\* C14 (Inv. 2), taken in the states in which no call is running: every slot of the
\* slot index maps to a committed step id whose record has that slot and which is
\* the most recent step id committed for the slot, and the slot of every committed
\* record is in the index.
C14_SlotIndexConsistent ==
    AllIdle =>
        /\ \A sl \in DOMAIN db.slotIndex :
               /\ db.slotIndex[sl] \in Committed(db)
               /\ db.records[db.slotIndex[sl]].slot = sl
               /\ \A i \in Committed(db) : db.records[i].slot = sl => i <= db.slotIndex[sl]
        /\ \A i \in Committed(db) : db.records[i].slot \in DOMAIN db.slotIndex

\* The state after a whole call of on_pandora_header(h), of on_vanguard_shard(v),
\* made in state s.
AfterPan(s, h) == Dropped(RunToReturn(processPandoraHeader(s, h, "none"), "pan"), "pan")

AfterVan(s, v, disableDelete) ==
    Dropped(RunToReturn(processVanguardShardInfo(s, v, "none", disableDelete), "van"), "van")

\* The header and the shard are of one slot, agree with each other and extend the
\* verified tip of the store.
ExtendsTip(d, h, v) ==
    /\ h.slot = v.slot
    /\ compareShardingInfo(h, v.shardInfo)
    /\ verifyShardInfo(VerifiedShardInfo(d, d.latestStepId), h, v, d.latestStepId)

\* The store with the pair committed on top of it.
WithPair(d, h, v) ==
    [d EXCEPT !.records = (d.latestStepId + 1 :> PrepareMultiShardData(v, h)) @@ @,
              !.latestStepId = @ + 1,
              !.slotIndex = (v.slot :> d.latestStepId + 1) @@ @,
              !.finalizedSlot = IF v.finalizedSlot > @ THEN v.finalizedSlot ELSE @,
              !.finalizedEpoch = IF v.finalizedEpoch > @ THEN v.finalizedEpoch ELSE @]

\* The pair is committed in s1, which follows s0: the store has it on top, its
\* Verified confirmation was sent once, and no cache holds the slot.
PairCommitted(s0, s1, h, v) ==
    /\ s1.db = WithPair(s0.db, h, v)
    /\ s1.verifiedSlotInfoFeed =
           BagAdd(s0.verifiedSlotInfoFeed, Confirmation(h.hash, v.blockRoot, "Verified"))
    /\ h.slot \notin DOMAIN s1.panHeaderCache
    /\ v.slot \notin DOMAIN s1.vanShardCache

\* The calls h then v and the calls v then h, made in the current state, both end
\* with the pair committed.
BothOrdersCommit(h, v, disableDelete) ==
    /\ PairCommitted(State, AfterVan(AfterPan(State, h), v, disableDelete), h, v)
    /\ PairCommitted(State, AfterPan(AfterVan(State, v, disableDelete), h), h, v)

\* C15 as stated: between two calls, for every header h and shard v of one slot that
\* validly extend the verified tip, the calls h then v and the calls v then h end
\* the same way, with the pair committed: the same store, latest_step_id, slot index
\* and finalized values, the one confirmation (h.hash, v.blockRoot, Verified), and
\* no cache entry for the slot.
C15_ArrivalOrderIndependent ==
    \A h \in Headers : \A v \in Shards : \A disableDelete \in BOOLEAN :
        ExtendsTip(db, h, v) => BothOrdersCommit(h, v, disableDelete)

\* C15 amended: the same, for a slot of which neither cache holds an entry when the
\* first of the two calls is made.
C15_FreshArrivalOrderIndependent ==
    \A h \in Headers : \A v \in Shards : \A disableDelete \in BOOLEAN :
        (/\ ExtendsTip(db, h, v)
         /\ h.slot \notin DOMAIN panHeaderCache \cup DOMAIN vanShardCache)
        => BothOrdersCommit(h, v, disableDelete)

\* A pair extends a tip above genesis while the caches hold other slots, and both
\* orders commit it; its shard is kept from the cache sweep (disable_delete).
C15_Witness ==
    \E h \in Headers : \E v \in Shards :
        /\ db.latestStepId > 0 /\ ExtendsTip(db, h, v)
        /\ DOMAIN panHeaderCache /= {} /\ DOMAIN vanShardCache /= {}
        /\ h.slot \notin DOMAIN panHeaderCache \cup DOMAIN vanShardCache
        /\ BothOrdersCommit(h, v, TRUE)

\* The step ids below the head whose record has the shard's parent root, when the
\* head record itself has not: the reorg trigger of on_vanguard_shard(v).
ReorgTrigger(d, v) ==
    IF d.latestStepId > 0 /\ d.latestStepId \in DOMAIN d.records
          /\ d.records[d.latestStepId].slotBlockRoot /= v.parentRoot
    THEN {i \in 1..(d.latestStepId - 1) :
              i \in DOMAIN d.records /\ d.records[i].slotBlockRoot = v.parentRoot}
    ELSE {}

\* C16: a call of on_vanguard_shard(v) that is not short-circuited and meets a reorg
\* trigger leaves cur_reorg_status with v's slot, block root and execution hash and
\* the ancestor's step id and record (has_resolved false unless the call itself
\* went on to insertIntoChain), and goes on with the ancestor as latest, whatever
\* cur_reorg_status was before.
C16_ReorgStatusInstalled ==
    [][ \A v \in Shards :
          (/\ IsCall /\ lastCall'.task = "van" /\ lastCall'.shard = Some(v)
           /\ ~ VanShortCircuit(db, v)
           /\ ReorgTrigger(db, v) /= {})
          => \E i \in ReorgTrigger(db, v) :
                 /\ IsSome(curReorgStatus')
                 /\ Val(curReorgStatus').slot = v.slot
                 /\ Val(curReorgStatus').blockRoot = v.blockRoot
                 /\ Val(curReorgStatus').parentStepId = i
                 /\ Val(curReorgStatus').parentShardInfo = Some(db.records[i])
                 /\ Val(curReorgStatus').pandoraHash = v.shardInfo.hash
                 /\ (Val(curReorgStatus').hasResolved => InsertReached(lastCall'))
                 /\ lastCall'.latestStepId = i
                 /\ lastCall'.latestShardInfo = Some(db.records[i]) ]_vars

\* The step removed or replaced a committed record: processReorg's remove_range ran.
Rewound ==
    \E i \in Committed(db) : i \notin DOMAIN db'.records \/ db'.records[i] /= db.records[i]

\* The step changed has_resolved from false to true.
Resolved ==
    /\ IsSome(curReorgStatus') /\ Val(curReorgStatus').hasResolved
    /\ ~ (IsSome(curReorgStatus) /\ Val(curReorgStatus).hasResolved)

\* The store holds the pair of the reorg status at parent_step_id + 1, as its head.
ReorgPairCommitted(d, status) ==
    /\ d.latestStepId = status.parentStepId + 1
    /\ DOMAIN d.records = 1..d.latestStepId
    /\ d.records[d.latestStepId].slot = status.slot
    /\ d.records[d.latestStepId].slotBlockRoot = status.blockRoot
    /\ d.records[d.latestStepId].hash = status.pandoraHash

\* C17: a call rewinds the store only inside insertIntoChain, with both compares
\* passed and cur_reorg_status being the pair's (slot, block root); and a call
\* that changes has_resolved from false to true leaves the store rewound to
\* parent_step_id with the reorg pair's record committed at parent_step_id + 1.
C17_ResolvedAfterCommit ==
    [][ IsCall =>
          /\ Rewound =>
                 /\ InsertReached(lastCall')
                 /\ PairVerifies(Val(lastCall'.header), Val(lastCall'.shard),
                                 lastCall'.latestShardInfo, lastCall'.latestStepId)
                 /\ IsSome(curReorgStatus')
                 /\ Val(curReorgStatus').slot = Val(lastCall'.shard).slot
                 /\ Val(curReorgStatus').blockRoot = Val(lastCall'.shard).blockRoot
          /\ Resolved => ReorgPairCommitted(db', Val(curReorgStatus')) ]_vars

\* The call of on_vanguard_shard(v) is not short-circuited and its cache put fails
\* with UnknownParent (against the latest verified shard info the call put with).
VanOrphanCall(v) ==
    /\ IsCall /\ lastCall'.task = "van" /\ lastCall'.shard = Some(v)
    /\ ~ VanShortCircuit(db, v)
    /\ VanPutUnknownParent(vanShardCache, v, lastCall'.latestShardInfo)

\* What such a call does besides its effect on the vanguard cache: it returns nil,
\* sends no confirmation, does not reach insertIntoChain and does not touch the
\* store or the pandora cache.
VanOrphanDropped ==
    /\ lastCall'.ret = "nil"
    /\ ~ IsSome(lastCall'.header)
    /\ UNCHANGED <<verifiedSlotInfoFeed, db, appendLog, panHeaderCache>>

\* C18 as stated: a call of on_vanguard_shard(v) that is not short-circuited and
\* whose cache put fails with UnknownParent returns nil, sends no confirmation,
\* leaves the vanguard cache without an entry for v and without an in-progress
\* mark, does not call insertIntoChain and does not touch the store.
C18_VanOrphanLeavesNoEntry ==
    [][ \A v \in Shards :
          VanOrphanCall(v)
          => /\ VanOrphanDropped
             /\ ~ (v.slot \in DOMAIN vanShardCache' /\ vanShardCache'[v.slot].shard = v)
             /\ \A sl \in DOMAIN vanShardCache' : ~ vanShardCache'[sl].inProgress ]_vars

\* C18 amended: the same, but the vanguard cache is left unchanged: v is not put,
\* and an entry that an earlier call cached for v at that slot stays.
C18_VanOrphanLeavesCacheUnchanged ==
    [][ \A v \in Shards :
          VanOrphanCall(v) => (VanOrphanDropped /\ vanShardCache' = vanShardCache) ]_vars

\* The last call was of a shard whose parent is unknown: it returned nil before
\* insertIntoChain although the shard is cached at its slot from an earlier call,
\* and no confirmation names the shard's block root.
C18_Witness ==
    /\ lastCall.task = "van" /\ ~ IsSome(lastCall.header) /\ lastCall.ret = "nil"
    /\ ~ VanShortCircuit(db, Val(lastCall.shard))
    /\ VanPutUnknownParent(vanShardCache, Val(lastCall.shard), lastCall.latestShardInfo)
    /\ lastCall.slot \in DOMAIN vanShardCache
    /\ vanShardCache[lastCall.slot].shard = Val(lastCall.shard)
    /\ \A c \in DOMAIN verifiedSlotInfoFeed : c.root /= Val(lastCall.shard).blockRoot

\* The call ran processReorg and a store call of processReorg failed: the call
\* reached insertIntoChain with a pair that passes both compares, cur_reorg_status
\* is the pair's (slot, block root) and was not left resolved by an earlier call.
ReorgFailedCall(h, v) ==
    /\ IsCall /\ lastCall'.fault \in {"reorg", "reorgLatest"}
    /\ lastCall'.header = Some(h) /\ lastCall'.shard = Some(v)
    /\ PairVerifies(h, v, lastCall'.latestShardInfo, lastCall'.latestStepId)
    /\ IsSome(curReorgStatus')
    /\ Val(curReorgStatus').slot = v.slot /\ Val(curReorgStatus').blockRoot = v.blockRoot
    /\ ~ (curReorgStatus' = curReorgStatus /\ Val(curReorgStatus).hasResolved)

WriteFailedCall(h, v) ==
    /\ IsCall /\ lastCall'.header = Some(h) /\ lastCall'.shard = Some(v)
    /\ PairVerifies(h, v, lastCall'.latestShardInfo, lastCall'.latestStepId)
    /\ ~ ReorgFailedCall(h, v)
    /\ lastCall'.fault \in {"record", "head", "index"} \/ lastCall'.status /= "Verified"

\* C20: a call in which a store write of the commit fails returns the error, sends
\* no confirmation, writes no finalized value and leaves the header and the shard
\* of the slot in their caches.
C20_WriteFailureSurfaces ==
    [][ \A h \in Headers : \A v \in Shards :
          WriteFailedCall(h, v)
          => /\ lastCall'.ret = "failed to write shard info in db"
             /\ UNCHANGED verifiedSlotInfoFeed
             /\ db'.finalizedSlot = db.finalizedSlot
             /\ db'.finalizedEpoch = db.finalizedEpoch
             /\ v.slot \in DOMAIN panHeaderCache' /\ panHeaderCache'[v.slot].header = h
             /\ v.slot \in DOMAIN vanShardCache' /\ vanShardCache'[v.slot].shard = v ]_vars

\* The last call failed on the slot-index write: the pair's record is stored at the
\* head, the slot index does not name it, the error was returned, both cache
\* entries are still there and the pair has no confirmation.
C20_Witness ==
    /\ lastCall.fault = "index" /\ InsertReached(lastCall)
    /\ lastCall.ret = "failed to write shard info in db"
    /\ db.latestStepId \in DOMAIN db.records
    /\ db.records[db.latestStepId] =
           PrepareMultiShardData(Val(lastCall.shard), Val(lastCall.header))
    /\ lastCall.slot \notin DOMAIN db.slotIndex
    /\ lastCall.slot \in DOMAIN panHeaderCache \cap DOMAIN vanShardCache
    /\ \A c \in DOMAIN verifiedSlotInfoFeed : c.root /= Val(lastCall.shard).blockRoot

\* The positions of a call between its MarkInProgress and its deferred
\* MarkNotInProgress (handler.go:69-80 and 160-171).
MarkedPcs == {"getOther", "unmark"} \cup InsertPcs

\* The slots marked in progress in a cache.
InProgressSlots(cache) == {sl \in DOMAIN cache : cache[sl].inProgress}

\* C21: a cache entry is in progress only while the call of its own stream that
\* marked it is between the mark and its return; so with no call running no entry is
\* in progress, and a call that comes to mark its slot never finds it in progress.
C21_InProgressReleased ==
    /\ \A sl \in InProgressSlots(panHeaderCache) :
           task["pan"].pc \in MarkedPcs /\ task["pan"].slot = sl
    /\ \A sl \in InProgressSlots(vanShardCache) :
           task["van"].pc \in MarkedPcs /\ task["van"].slot = sl
    /\ AllIdle => InProgressSlots(panHeaderCache) \cup InProgressSlots(vanShardCache) = {}
    /\ task["pan"].pc = "markInProgress" => task["pan"].slot \notin InProgressSlots(panHeaderCache)
    /\ task["van"].pc = "markInProgress" => task["van"].slot \notin InProgressSlots(vanShardCache)
    /\ lastCall.ret /= "mark in progress failed"

\* The last call marked its slot, reached insertIntoChain and left it with the error
\* of a failed store write: the header and the shard of the slot are still cached
\* and neither is in progress.
C21_Witness ==
    /\ lastCall.ret = "failed to write shard info in db" /\ InsertReached(lastCall)
    /\ lastCall.slot \in DOMAIN panHeaderCache \cap DOMAIN vanShardCache
    /\ ~ panHeaderCache[lastCall.slot].inProgress
    /\ ~ vanShardCache[lastCall.slot].inProgress

\* The call reached insertIntoChain and ended it with a successful append.
EndedVerified(c) == InsertReached(c) /\ c.status = "Verified"

\* C22: a call removes entries from the caches only through an insertIntoChain that
\* ends Verified, and then it removes the entries of the pair's slot from both
\* caches; a call whose insertIntoChain ends otherwise leaves the header and the
\* shard of the slot cached; the entries of the other slots are never changed.
C22_EvictionOnlyOnCommit ==
    [][ IsCall =>
          /\ EndedVerified(lastCall') =>
                 lastCall'.slot \notin DOMAIN panHeaderCache' \cup DOMAIN vanShardCache'
          /\ (InsertReached(lastCall') /\ ~ EndedVerified(lastCall')) =>
                 /\ lastCall'.slot \in DOMAIN panHeaderCache' \cap DOMAIN vanShardCache'
                 /\ panHeaderCache'[lastCall'.slot].header = Val(lastCall'.header)
                 /\ vanShardCache'[lastCall'.slot].shard = Val(lastCall'.shard)
          /\ ~ EndedVerified(lastCall') =>
                 /\ DOMAIN panHeaderCache \subseteq DOMAIN panHeaderCache'
                 /\ DOMAIN vanShardCache \subseteq DOMAIN vanShardCache'
          /\ \A sl \in Slots \ {lastCall'.slot} :
                 /\ sl \in DOMAIN panHeaderCache =>
                        sl \in DOMAIN panHeaderCache' /\ panHeaderCache'[sl] = panHeaderCache[sl]
                 /\ sl \in DOMAIN vanShardCache =>
                        sl \in DOMAIN vanShardCache' /\ vanShardCache'[sl] = vanShardCache[sl] ]_vars

\* The last call committed its pair: the slot is in neither cache, while an entry of
\* another slot is still cached.
C22_Witness ==
    /\ EndedVerified(lastCall) /\ lastCall.ret = "nil"
    /\ lastCall.slot \in DOMAIN db.slotIndex
    /\ lastCall.slot \notin DOMAIN panHeaderCache \cup DOMAIN vanShardCache
    /\ DOMAIN panHeaderCache \cup DOMAIN vanShardCache /= {}

\* s is a prefix of r.
IsPrefix(s, r) == Len(s) <= Len(r) /\ \A i \in 1..Len(s) : s[i] = r[i]

\* The dispatcher hands the headers to the handler in the order the subscription
\* delivered them.
DispatchedInArrivalOrder ==
    IsPrefix(dispatched, received)
        /\ Len(received) = Len(dispatched) + Len(ch)
                              + (IF dispatcher.pc = "dispatch" THEN 1 ELSE 0)

\* A loop that has returned after a subscription error has put the error on
\* s.conInfoSubErrCh.
ErrorForwardedBeforeExit ==
    (dispatcher.pc = "returned" /\ IsSome(dispatcher.err))
        => Len(conInfoSubErrCh.buf) + conInfoSubErrCh.taken = 1

\* The running dispatcher has been asked to stop: the context is cancelled, or
\* the subscription has delivered an error.
StopRequested ==
    DispatcherRunning /\ (ctx = "cancelled" \/ sub = "failed" \/ dispatcher.pc = "forward")

\* C23: the dispatcher hands each header to the handler in arrival order; a loop
\* that exits on a subscription error has forwarded the error to the error channel;
\* and once the context is cancelled or the subscription has failed, the loop
\* eventually returns (it does not wait forever, in the select or in the forward).
C23_DispatcherShutsDown ==
    /\ [] DispatchedInArrivalOrder
    /\ [] ErrorForwardedBeforeExit
    /\ StopRequested ~> dispatcher.pc = "returned"

====
